---- MODULE Spec2Model ----
(***************************************************************************)
(* Model of the project-sheet API resource (src/projectsheet/api.py):      *)
(* ProjectSheetResource.hydrate as run by a creation request, and the      *)
(* custom endpoint ProjectSheetResource.projectsheet_search.               *)
(*                                                                         *)
(* Strings are sequences of one-character strings, so that the formatting  *)
(* 'tags:%s' % facet, the prefix test str.startswith and the splitting of  *)
(* a query string into terms are computed, not assumed.                    *)
(***************************************************************************)
EXTENDS Integers, Sequences, FiniteSets, TLC

VARIABLES templates, sheets, request, response, events

vars == <<templates, sheets, request, response, events>>

(***************************************************************************)
(* Bounds of the model.                                                    *)
(***************************************************************************)
MaxTemplates == 1
MaxSheets == 2
MaxFacets == 2

(***************************************************************************)
(* Strings.                                                                *)
(***************************************************************************)
Empty == <<>>
SP == " "

\* Python's None, as the default of request.GET.get('auto', None): a value no
\* string of one-character letters equals.
None == <<"None">>

StartsWith(s, p) ==
    /\ Len(p) <= Len(s)
    /\ SubSeq(s, 1, Len(p)) = p

\* Position of the first occurrence of character c in s, 0 when absent.
RECURSIVE Find(_, _, _)
Find(s, c, i) ==
    IF i > Len(s) THEN 0
    ELSE IF s[i] = c THEN i
    ELSE Find(s, c, i + 1)

\* The whitespace-separated terms of s, as a sequence of non-empty strings.
RECURSIVE Split(_)
Split(s) ==
    IF s = Empty THEN <<>>
    ELSE LET i == Find(s, SP, 1) IN
         IF i = 0 THEN <<s>>
         ELSE IF i = 1 THEN Split(SubSeq(s, 2, Len(s)))
         ELSE <<SubSeq(s, 1, i - 1)>> \o Split(SubSeq(s, i + 1, Len(s)))

Range(f) == {f[i] : i \in DOMAIN f}

\* The subsequence of the elements of seq that are in set S.
RECURSIVE Keep(_, _)
Keep(seq, S) ==
    IF seq = <<>> THEN <<>>
    ELSE IF Head(seq) \in S THEN <<Head(seq)>> \o Keep(Tail(seq), S)
    ELSE Keep(Tail(seq), S)

\* Python's seq[lo:hi] for 0 <= lo, with 0-based bounds.
Slice(seq, lo, hi) ==
    LET a == IF lo > Len(seq) THEN Len(seq) ELSE lo
        b == IF hi > Len(seq) THEN Len(seq) ELSE hi
    IN IF b <= a THEN <<>> ELSE SubSeq(seq, a + 1, b)

(***************************************************************************)
(* The stored data.                                                        *)
(***************************************************************************)
T_u == <<"u">>
T_r == <<"r">>
T_u_r == <<"u", " ", "r">>
W_w == <<"w">>

\* Tag names in the order in which the facet counts list them.
TagList == <<T_u, T_u_r, T_r>>

\* Absent template_id / project_id key of a payload; an unset relation.
NoId == 0

\* Project.objects: the stored projects (no resource of this file creates one).
Projects == {1}

\* What a creation request carries: the keys read by hydrate, and the indexed
\* content (tags, text) of the sheet.
Payloads ==
    { [template_id |-> 1, project_id |-> 1, tags |-> {T_u}, text |-> {T_r}],
      [template_id |-> NoId, project_id |-> NoId, tags |-> {T_u_r, T_r}, text |-> {W_w}],
      [template_id |-> 1, project_id |-> NoId, tags |-> {T_u, T_r}, text |-> {W_w, T_r}],
      [template_id |-> MaxTemplates + 1, project_id |-> 1, tags |-> {T_u}, text |-> {W_w}],
      [template_id |-> 1, project_id |-> 2, tags |-> {T_r}, text |-> {W_w}] }

NoRequest == [kind |-> "none"]
NoResponse == [status |-> "none"]

Init ==
    /\ templates = {}
    /\ sheets = <<>>
    /\ request = NoRequest
    /\ response = NoResponse
    /\ events = <<>>

\* No request is being handled: the last response has been returned.
Idle == request = NoRequest

\* The response of the handled request is returned to the client.
Return ==
    /\ ~Idle
    /\ request' = NoRequest
    /\ response' = NoResponse
    /\ events' = <<>>
    /\ UNCHANGED <<templates, sheets>>

(***************************************************************************)
(* ProjectSheetTemplateResource: POST creates a template.                  *)
(***************************************************************************)
CreateTemplate ==
    /\ Idle
    /\ Cardinality(templates) < MaxTemplates
    /\ templates' = templates \cup {Cardinality(templates) + 1}
    /\ request' = [kind |-> "template"]
    /\ response' = [status |-> "created"]
    /\ events' = <<"save">>
    /\ UNCHANGED sheets

(***************************************************************************)
(* ProjectSheetResource.hydrate: the bundle's object after the lookups, or *)
(* the DoesNotExist that objects.get raises.                               *)
(***************************************************************************)
HydrateProject(data, obj) ==
    IF data.project_id # NoId
    THEN IF data.project_id \in Projects
         THEN [ok |-> TRUE, obj |-> [obj EXCEPT !.project = data.project_id]]
         ELSE [ok |-> FALSE, obj |-> obj]
    ELSE [ok |-> TRUE, obj |-> obj]

\* Mutant: the template is looked up with filter(...).first(), which gives
\* None where get raises.
HydrateTemplate_First(data, obj, stored) ==
    IF data.template_id # NoId
    THEN IF data.template_id \in stored
         THEN [ok |-> TRUE, obj |-> [obj EXCEPT !.template = data.template_id]]
         ELSE [ok |-> TRUE, obj |-> [obj EXCEPT !.template = NoId]]
    ELSE [ok |-> TRUE, obj |-> obj]

HydrateTemplate(data, obj, stored) ==
    IF data.template_id # NoId
    THEN IF data.template_id \in stored
         THEN [ok |-> TRUE, obj |-> [obj EXCEPT !.template = data.template_id]]
         ELSE [ok |-> FALSE, obj |-> obj]
    ELSE [ok |-> TRUE, obj |-> obj]

hydrate(data, obj, stored) ==
    LET p == HydrateProject(data, obj) IN
    IF ~p.ok THEN p ELSE HydrateTemplate(data, p.obj, stored)

\* The object a creation request builds before hydrate runs.
NewSheet(data, id) ==
    [id |-> id, project |-> NoId, template |-> NoId,
     tags |-> data.tags, text |-> data.text]

\* POST on the project-sheet resource: hydrate, then save.  An exception of
\* hydrate ends the request before the save.
CreateSheet ==
    /\ Idle
    /\ Len(sheets) < MaxSheets
    /\ \E data \in Payloads :
          LET h == hydrate(data, NewSheet(data, Len(sheets) + 1), templates) IN
          /\ request' = [kind |-> "create", data |-> data]
          /\ IF h.ok
             THEN /\ sheets' = Append(sheets, h.obj)
                  /\ response' = [status |-> "created", obj |-> h.obj]
                  /\ events' = <<"hydrate", "save">>
             ELSE /\ sheets' = sheets
                  /\ response' = [status |-> "DoesNotExist"]
                  /\ events' = <<"hydrate">>
    /\ UNCHANGED templates

(***************************************************************************)
(* The search index, as the endpoint uses it through SearchQuerySet.  The  *)
(* indexed documents are the stored sheets, in the order of their ids.     *)
(***************************************************************************)
F_tags == <<"t", "a", "g", "s">>
F_text == <<"t", "e", "x", "t">>
COLON == ":"
MINUS == "-"

\* SearchQuerySet().models(ProjectSheet).facet('tags'): nothing narrowed, no
\* text query yet.
NewQuerySet == [narrow |-> {}, query |-> Empty]

\* 'tags:%s' % (facet)
FormatFacet(facet) == F_tags \o <<COLON>> \o facet

\* sqs.narrow(raw): one more raw filter query, all of which a result matches.
narrow(sqs, raw) == [sqs EXCEPT !.narrow = @ \cup {raw}]

\* The loop over selected_facets.
RECURSIVE NarrowAll(_, _)
NarrowAll(sqs, facets) ==
    IF facets = <<>> THEN sqs
    ELSE NarrowAll(narrow(sqs, FormatFacet(Head(facets))), Tail(facets))

\* sqs.auto_query(query)
auto_query(sqs, query) == [sqs EXCEPT !.query = query]

\* One clause of a raw filter query: field:term matches the field's values
\* exactly, a bare term is looked up in the document text.
MatchClause(clause, doc) ==
    LET i == Find(clause, COLON, 1)
        field == SubSeq(clause, 1, i - 1)
        term == SubSeq(clause, i + 1, Len(clause))
    IN IF i = 0 THEN clause \in doc.text
       ELSE IF field = F_tags THEN term \in doc.tags
       ELSE IF field = F_text THEN term \in doc.text
       ELSE FALSE

\* A raw filter query is split into its clauses, which are all required.
MatchRaw(raw, doc) ==
    \A clause \in Range(Split(raw)) : MatchClause(clause, doc)

\* One term of an auto query: -term excludes, term requires.
MatchTerm(term, doc) ==
    IF Len(term) > 1 /\ Head(term) = MINUS
    THEN Tail(term) \notin doc.text
    ELSE term \in doc.text

Matches(sqs, doc) ==
    /\ \A raw \in sqs.narrow : MatchRaw(raw, doc)
    /\ \A term \in Range(Split(sqs.query)) : MatchTerm(term, doc)

\* The results of the query set over the index, as the sequence of matching
\* documents.
RECURSIVE Run(_, _)
Run(sqs, index) ==
    IF index = <<>> THEN <<>>
    ELSE IF Matches(sqs, Head(index))
         THEN <<Head(index)>> \o Run(sqs, Tail(index))
         ELSE Run(sqs, Tail(index))

CountTag(tag, docs) == Cardinality({i \in DOMAIN docs : tag \in docs[i].tags})

\* sqs.facet_counts()['fields']['tags']: the (name, count) pairs of the tags
\* of the results.
RECURSIVE CountList(_, _)
CountList(tags, docs) ==
    IF tags = <<>> THEN <<>>
    ELSE LET count == CountTag(Head(tags), docs) IN
         IF count > 0
         THEN <<<<Head(tags), count>>>> \o CountList(Tail(tags), docs)
         ELSE CountList(Tail(tags), docs)

facet_counts(sqs, index) == CountList(TagList, Run(sqs, index))

(***************************************************************************)
(* The request of the search endpoint.                                     *)
(***************************************************************************)
Methods == {"GET", "POST"}
QValues == {<<>>, <<Empty>>, <<W_w>>, <<<<"-", "r">>>>}
AutoValues == {<<>>, <<Empty>>, <<T_u>>}
FacetValues == {T_r, T_u_r}
OrderValues == {<<>>, <<<<"-", "i", "d">>>>}
Limits == {1, 2}
Offsets == {0, 1}

FacetLists == UNION {[1 .. n -> FacetValues] : n \in 0 .. MaxFacets}

\* request.GET: every key with the list of its values.
QueryDicts ==
    [q : QValues, auto : AutoValues, facet : FacetLists, order : OrderValues,
     limit : Limits, offset : Offsets]

\* QueryDict.get(key, default): the last value of the key.
Get(values, default) ==
    IF values = <<>> THEN default ELSE values[Len(values)]

(***************************************************************************)
(* tastypie's Paginator over the results.                                  *)
(***************************************************************************)
\* The uri of another page: the request's parameters with limit and offset
\* replaced; <<>> when there is no such page.
PageUri(GET, limit, offset) == <<[GET EXCEPT !.limit = limit, !.offset = offset]>>

page(GET, results) ==
    LET limit == GET.limit
        offset == GET.offset
        count == Len(results)
    IN [objects |-> Slice(results, offset, offset + limit),
        meta |-> [limit |-> limit, offset |-> offset, total_count |-> count,
                  previous |-> IF offset - limit < 0 THEN <<>>
                               ELSE PageUri(GET, limit, offset - limit),
                  next |-> IF offset + limit >= count THEN <<>>
                           ELSE PageUri(GET, limit, offset + limit)]]

\* full_dehydrate(bundle, for_list=True): the fields used in a list (the
\* template is use_in='detail').
full_dehydrate(obj) == [id |-> obj.id, project |-> obj.project]

\* The loop over paginator.page()['objects']; every result of the model has
\* its object, so `if result:` skips none.
RECURSIVE DehydrateAll(_)
DehydrateAll(results) ==
    IF results = <<>> THEN <<>>
    ELSE <<full_dehydrate(Head(results))>> \o DehydrateAll(Tail(results))

(***************************************************************************)
(* ProjectSheetResource.projectsheet_search                                *)
(***************************************************************************)
\* The requests handled: every parameter combination for those that pass the
\* checks, and, for those that a check refuses before any parameter is read,
\* every q, auto and facet on the first page.
Requests ==
    {req \in [method : Methods, cred : BOOLEAN, GET : QueryDicts] :
        \/ req.method = "GET" /\ req.cred
        \/ req.GET.limit = 1 /\ req.GET.offset = 0 /\ req.GET.order = <<>>}

\* Mutant: allowed=['get', 'post'].
method_check_Post(req) == req.method \in {"GET", "POST"}

\* self.method_check(request, allowed=['get'])
method_check(req) == req.method = "GET"

\* self.throttle_check(request): Meta sets no throttle, and the resource's
\* default throttle refuses nothing.
throttle_check(req) == TRUE

\* self.is_authenticated(request): the credentials are those of a user, or
\* the anonymous api key.
is_authenticated(req) == req.cred

\* The query set built from the facets.
FacetQuerySet(GET) ==
    LET selected_facets == GET.facet
        sqs == NewQuerySet
    IN IF selected_facets # <<>> THEN NarrowAll(sqs, selected_facets) ELSE sqs

\* Mutant: t[0] == autocomplete.
TagsStartingWith_Equal(tags, autocomplete) ==
    SelectSeq(tags, LAMBDA t : t[1] = autocomplete)

\* tags = [t for t in tags if t[0].startswith(autocomplete)]
TagsStartingWith(tags, autocomplete) ==
    SelectSeq(tags, LAMBDA t : StartsWith(t[1], autocomplete))

\* tags = [{'name': t[0], 'count': t[1]} for t in tags]
RECURSIVE NameCount(_)
NameCount(tags) ==
    IF tags = <<>> THEN <<>>
    ELSE <<[name |-> Head(tags)[1], count |-> Head(tags)[2]]>> \o NameCount(Tail(tags))

\* A: the tags starting with "auto", along with their count.
AutocompleteList(GET, index) ==
    LET autocomplete == Get(GET.auto, None)
        sqs == FacetQuerySet(GET)
        tags == facet_counts(sqs, index)
        kept == IF Len(autocomplete) > 0
                THEN TagsStartingWith(tags, autocomplete)
                ELSE tags
    IN [objects |-> NameCount(kept)]

\* Mutant: request.GET.get('q') without the '' default.
ResultQuerySet_NoDefault(GET) ==
    LET query == Get(GET.q, None)
        sqs == FacetQuerySet(GET)
    IN IF query # Empty THEN auto_query(sqs, query) ELSE sqs

\* Mutant: the text query is put to a new SearchQuerySet, not to the
\* narrowed one.
ResultQuerySet_Fresh(GET) ==
    LET query == Get(GET.q, Empty)
        sqs == FacetQuerySet(GET)
    IN IF query # Empty THEN auto_query(NewQuerySet, query) ELSE sqs

\* The query set of a normal search.
ResultQuerySet(GET) ==
    LET query == Get(GET.q, Empty)
        sqs == FacetQuerySet(GET)
    IN IF query # Empty THEN auto_query(sqs, query) ELSE sqs

\* Mutant: the results are put in the order of `order` (descending ids)
\* before they are paginated.
RECURSIVE Reverse(_)
Reverse(seq) ==
    IF seq = <<>> THEN <<>> ELSE Append(Reverse(Tail(seq)), Head(seq))

ResultList_Ordered(GET, index) ==
    LET results == Run(ResultQuerySet(GET), index)
        paginator == page(GET, IF GET.order # <<>> THEN Reverse(results)
                               ELSE results)
    IN [meta |-> paginator.meta,
        objects |-> DehydrateAll(paginator.objects)]

\* B: a page of project sheets.
ResultList(GET, index) ==
    LET paginator == page(GET, Run(ResultQuerySet(GET), index))
    IN [meta |-> paginator.meta,
        objects |-> DehydrateAll(paginator.objects)]

\* Mutant: `if autocomplete:` in place of `if autocomplete is not None:`.
ObjectList_Truthy(GET, index) ==
    IF Get(GET.auto, None) \notin {None, Empty}
    THEN AutocompleteList(GET, index)
    ELSE ResultList(GET, index)

\* The object_list of the response.
ObjectList(GET, index) ==
    IF Get(GET.auto, None) # None
    THEN AutocompleteList(GET, index)
    ELSE ResultList(GET, index)

\* The calls of the part of the handler between the checks and the log that
\* reach the search index, in order.
QueryCalls(GET) ==
    IF Get(GET.auto, None) # None
    THEN <<"facet_counts">>
    ELSE (IF Get(GET.q, Empty) # Empty THEN <<"auto_query">> ELSE <<>>)
         \o <<"page", "page">>

\* Mutant: the access is logged with the checks, before the query.
projectsheet_search_LogFirst(req, index) ==
    IF ~method_check(req)
    THEN [response |-> [status |-> "MethodNotAllowed"],
          events |-> <<"method_check">>]
    ELSE IF ~throttle_check(req)
    THEN [response |-> [status |-> "TooManyRequests"],
          events |-> <<"method_check", "throttle_check">>]
    ELSE IF ~is_authenticated(req)
    THEN [response |-> [status |-> "Unauthorized"],
          events |-> <<"method_check", "throttle_check", "is_authenticated">>]
    ELSE [response |-> [status |-> "ok", body |-> ObjectList(req.GET, index)],
          events |-> <<"method_check", "throttle_check", "is_authenticated",
                       "log_throttled_access">>
                     \o QueryCalls(req.GET)
                     \o <<"create_response">>]

\* The handler: its response, and the calls it made, in order.  A failed
\* check raises, which ends the handler.
projectsheet_search(req, index) ==
    IF ~method_check(req)
    THEN [response |-> [status |-> "MethodNotAllowed"],
          events |-> <<"method_check">>]
    ELSE IF ~throttle_check(req)
    THEN [response |-> [status |-> "TooManyRequests"],
          events |-> <<"method_check", "throttle_check">>]
    ELSE IF ~is_authenticated(req)
    THEN [response |-> [status |-> "Unauthorized"],
          events |-> <<"method_check", "throttle_check", "is_authenticated">>]
    ELSE [response |-> [status |-> "ok", body |-> ObjectList(req.GET, index)],
          events |-> <<"method_check", "throttle_check", "is_authenticated">>
                     \o QueryCalls(req.GET)
                     \o <<"log_throttled_access", "create_response">>]

\* Mutant: the bundles of the results are saved back, built from the
\* request, which carries no template.
Search_Saving ==
    /\ Idle
    /\ \E req \in Requests :
       LET r == projectsheet_search(req, sheets) IN
       /\ request' = [kind |-> "search", method |-> req.method,
                      cred |-> req.cred, GET |-> req.GET]
       /\ response' = r.response
       /\ events' = r.events
       /\ sheets' = IF r.response.status = "ok"
                    THEN [i \in DOMAIN sheets |->
                             [sheets[i] EXCEPT !.template = NoId]]
                    ELSE sheets
       /\ UNCHANGED templates

Search ==
    /\ Idle
    /\ \E req \in Requests :
       LET r == projectsheet_search(req, sheets) IN
       /\ request' = [kind |-> "search", method |-> req.method,
                      cred |-> req.cred, GET |-> req.GET]
       /\ response' = r.response
       /\ events' = r.events
       /\ UNCHANGED <<templates, sheets>>

Next == CreateTemplate \/ CreateSheet \/ Search \/ Return

Spec == Init /\ [][Next]_vars

(***************************************************************************)
(* Properties.                                                             *)
(***************************************************************************)
\* A search request that passed the checks and was answered.
Answered == request.kind = "search" /\ response.status = "ok"

\* The indexed sheet a returned object stands for.
SheetOf(object) == sheets[object.id]

\* p is a prefix of s, character by character.
IsPrefix(p, s) == Len(p) <= Len(s) /\ \A i \in 1 .. Len(p) : s[i] = p[i]

\* The sheets left by the narrowing of the request's facets.
NarrowedSheets == Run(FacetQuerySet(request.GET), sheets)

\* Positions of the calls of the handled request that reach the search index.
QueryPositions ==
    {i \in DOMAIN events : events[i] \in {"facet_counts", "auto_query", "page"}}

Positions(call) == {i \in DOMAIN events : events[i] = call}

\* C1: a search with no facet, no auto and an empty or absent q returns, page
\* by page, exactly the indexed project sheets: the page of the response is
\* the slice of all sheets at its offset, the total count is their number, and
\* the pages at offsets 0, limit, 2*limit, ... together hold every sheet.
C1_Unfiltered ==
    (/\ Answered
     /\ request.GET.facet = <<>>
     /\ request.GET.auto = <<>>
     /\ Get(request.GET.q, Empty) = Empty)
    => LET GET == request.GET
           body == response.body
           n == Len(sheets)
           size == IF GET.offset >= n THEN 0
                   ELSE IF n - GET.offset < GET.limit THEN n - GET.offset
                   ELSE GET.limit
       IN /\ body.meta.total_count = n
          /\ Len(body.objects) = size
          /\ \A i \in 1 .. size :
                body.objects[i] = full_dehydrate(sheets[GET.offset + i])
          /\ UNION {Range(ObjectList([GET EXCEPT !.offset = k * GET.limit],
                                     sheets).objects) : k \in 0 .. n}
             = {full_dehydrate(sheets[i]) : i \in DOMAIN sheets}

C1_Witness ==
    /\ Answered
    /\ request.GET.facet = <<>>
    /\ request.GET.auto = <<>>
    /\ request.GET.q = <<>>
    /\ request.GET.limit = 1
    /\ request.GET.offset = 1
    /\ Len(sheets) = 2
    /\ Len(response.body.objects) = 1

\* C2: the results of a search with facets are project sheets of the
\* unfiltered set that carry every one of the supplied tags, and a further
\* facet never adds a result.
C2_FacetsExactAnd ==
    (Answered /\ request.GET.auto = <<>>)
    => LET GET == request.GET
           unfiltered == ObjectList([GET EXCEPT !.facet = <<>>, !.offset = 0,
                                                 !.limit = MaxSheets], sheets)
       IN /\ \A object \in Range(response.body.objects) :
                \A facet \in Range(GET.facet) : facet \in SheetOf(object).tags
          /\ Range(response.body.objects) \subseteq Range(unfiltered.objects)
          /\ \A facet \in FacetValues :
                ObjectList([GET EXCEPT !.facet = Append(@, facet)],
                           sheets).meta.total_count
                <= response.body.meta.total_count

\* C3: with a non-empty auto prefix the response holds only `objects`, the
\* {name, count} pairs of exactly the tags of the facet count listing whose
\* name starts with the prefix, each with its count.
C3_AutocompletePrefix ==
    (Answered /\ request.GET.auto # <<>> /\ Get(request.GET.auto, None) # Empty)
    => LET prefix == Get(request.GET.auto, None)
           listing == facet_counts(FacetQuerySet(request.GET), sheets)
           objects == response.body.objects
       IN /\ DOMAIN response.body = {"objects"}
          /\ \A i \in DOMAIN objects : DOMAIN objects[i] = {"name", "count"}
          /\ {<<objects[i].name, objects[i].count>> : i \in DOMAIN objects}
             = {t \in Range(listing) : IsPrefix(prefix, t[1])}
          /\ \A i, j \in DOMAIN objects :
                objects[i].name = objects[j].name => i = j

C3_Witness ==
    /\ Answered
    /\ request.GET.auto = <<T_u>>
    /\ request.GET.facet = <<>>
    /\ \E i \in DOMAIN sheets : T_r \in sheets[i].tags
    /\ \E i \in DOMAIN response.body.objects :
          response.body.objects[i] = [name |-> T_u_r, count |-> 1]

\* C4: a creation with a template_id either saves the new sheet with the
\* template of that id attached by hydrate before the save, or, when no
\* template has that id, fails and leaves the stored sheets as they were.
C4_TemplateAttachedOrFails ==
    [][(request'.kind = "create" /\ request'.data.template_id # NoId)
       => LET data == request'.data
              resolvable == data.project_id = NoId \/ data.project_id \in Projects
          IN IF data.template_id \in templates /\ resolvable
             THEN /\ response'.status = "created"
                  /\ events' = <<"hydrate", "save">>
                  /\ Len(sheets') = Len(sheets) + 1
                  /\ SubSeq(sheets', 1, Len(sheets)) = sheets
                  /\ sheets'[Len(sheets')].template = data.template_id
                  /\ response'.obj = sheets'[Len(sheets')]
             ELSE /\ response'.status = "DoesNotExist"
                  /\ Positions("save")' = {}
                  /\ sheets' = sheets]_vars

C4_Witness ==
    /\ request.kind = "create"
    /\ request.data.template_id # NoId
    /\ request.data.template_id \notin templates
    /\ request.data.project_id \in Projects
    /\ response.status = "DoesNotExist"
    /\ Len(sheets) = 1

C6_GetOnly ==
    request.kind = "search"
    => /\ events # <<>> /\ events[1] = "method_check"
       /\ request.method # "GET" =>
             /\ response.status = "MethodNotAllowed"
             /\ events = <<"method_check">>
             /\ "body" \notin DOMAIN response

C6_Witness ==
    /\ request.kind = "search"
    /\ request.method = "POST"
    /\ request.cred
    /\ response.status = "MethodNotAllowed"
    /\ Len(sheets) > 0

\* C7: in a normal search the results are those sheets of the facet-narrowed
\* set that match the text of q, all of them when q is empty; the response
\* holds `meta` and `objects`, and each object is the dehydrated sheet at its
\* place in the page.
C7_NormalSearch ==
    (Answered /\ request.GET.auto = <<>>)
    => LET GET == request.GET
           body == response.body
           query == Get(GET.q, Empty)
           narrowed == NarrowedSheets
           matching == Keep(narrowed,
                            {s \in Range(narrowed) :
                                \A term \in Range(Split(query)) :
                                   MatchTerm(term, s)})
           found == IF query = Empty THEN narrowed ELSE matching
       IN /\ DOMAIN body = {"meta", "objects"}
          /\ body.meta.total_count = Len(found)
          /\ body.meta.limit = GET.limit /\ body.meta.offset = GET.offset
          /\ Len(body.objects) = Len(Slice(found, GET.offset, GET.offset + GET.limit))
          /\ \A i \in DOMAIN body.objects :
                /\ body.objects[i] = full_dehydrate(found[GET.offset + i])
                /\ SheetOf(body.objects[i]) \in Range(narrowed)

C7_Witness ==
    /\ Answered
    /\ request.GET.auto = <<>>
    /\ request.GET.q = <<<<"-", "r">>>>
    /\ request.GET.facet = <<T_r>>
    /\ request.GET.offset = 0
    /\ Len(NarrowedSheets) = 2
    /\ Len(response.body.objects) = 1
    /\ response.body.meta.total_count = 1

\* C8: a present auto parameter selects the autocomplete branch whatever its
\* value: an empty auto lists every tag of the facet-narrowed set, q and the
\* pagination parameters do not change the response (it is the response to
\* the same request with no q, on the first page of one), and each count is
\* the number of narrowed sheets carrying the tag.
C8_AutocompleteBranch ==
    (Answered /\ request.GET.auto # <<>>)
    => LET GET == request.GET
           objects == response.body.objects
           narrowed == NarrowedSheets
           carried == UNION {s.tags : s \in Range(narrowed)}
       IN /\ DOMAIN response.body = {"objects"}
          /\ Get(GET.auto, None) = Empty =>
                {objects[i].name : i \in DOMAIN objects} = carried
          /\ \A i \in DOMAIN objects :
                /\ objects[i].name \in carried
                /\ objects[i].count = CountTag(objects[i].name, narrowed)
          /\ response.body
             = ObjectList([GET EXCEPT !.q = <<>>, !.limit = 1, !.offset = 0],
                          sheets)

C8_Witness ==
    /\ Answered
    /\ request.GET.auto = <<Empty>>
    /\ request.GET.q = <<W_w>>
    /\ request.GET.facet = <<T_r>>
    /\ Len(sheets) = 2
    /\ Len(NarrowedSheets) = 1
    /\ Len(response.body.objects) = 2

\* C9: requests that differ only in `order` return the same objects in the
\* same order: those of the request without `order`.
C9_OrderIgnored ==
    Answered
    => response.body.objects
       = ObjectList([request.GET EXCEPT !.order = <<>>], sheets).objects

C9_Witness ==
    /\ Answered
    /\ request.GET.order # <<>>
    /\ request.GET.auto = <<>>
    /\ request.GET.limit = 2
    /\ Len(response.body.objects) = 2

\* C10: a search request changes no stored sheet and no template, and its
\* response is determined by its parameters and the stored data alone.
C10_ReadOnlyIndependent ==
    [][request'.kind = "search"
       => /\ sheets' = sheets
          /\ templates' = templates
          /\ response' = projectsheet_search(
                             [method |-> request'.method, cred |-> request'.cred,
                              GET |-> request'.GET], sheets').response]_vars

C10_Witness ==
    /\ Answered
    /\ Len(sheets) = 2
    /\ templates # {}
    /\ request.GET.facet # <<>>
    /\ request.GET.auto = <<>>
    /\ Len(response.body.objects) > 0

====
